---- MODULE Spec2Model ----
(***************************************************************************)
(* Model of equal_teams_solver.py (CP-SAT proof sweep with CEGAR and a     *)
(* static variant) and example_checker.py (stand-alone scan for two        *)
(* disjoint 5-subsets with equal sum).                                     *)
(*                                                                         *)
(* Indices are 0-based as in the Python source: a team is a strictly       *)
(* increasing tuple of indices i, and the score it refers to is            *)
(* scores[i + 1] of the TLA+ sequence.                                     *)
(***************************************************************************)
EXTENDS Integers, Sequences, FiniteSets, TLC

\* ------------------------------------------------------------------ bounds
\* Smallest and largest N the sweep is started on or ended at, and the
\* shortest and longest list handed to the finder.
MinN == 9
MaxN == 12
\* Longest list handed to the finder on its own.
MaxLen == 11
\* The score lists of the model are those whose scores add up to at most
\* MaxTotal: the oracle searches, and the finder is handed, small scores only.
MaxTotal == 16
\* Largest --limit of the model, in clock ticks.
MaxLimit == 1
\* Largest rotation applied to a sorted list to obtain an unsorted input.
MaxShift == 1

\* ------------------------------------------------------- program constants
\* Team size: the literal 5 of combinations(range(N), 5).
TeamSize == 5
\* Upper end of the score domain: NewIntVar(1, 100, ...).
ValueBound == 100
\* Distance of the two scores compared by pruning 1: score[i] != score[i + 9].
RunGap == 9
\* Largest total of duplicate pairs pruning 2 admits: sum(pair_vars) <= 4.
MaxPairs == 4

\* Python's None.
None == <<>>

\* ------------------------------------------------------- SubsetEnumerator
\* itertools.combinations(range(lo, n), k): increasing tuples, lexicographic.
RECURSIVE combinations(_, _, _)
combinations(lo, n, k) ==
    IF k = 0 THEN << <<>> >>
    ELSE IF n - lo < k THEN <<>>
    ELSE LET rest == combinations(lo + 1, n, k - 1)
         IN  [j \in 1..Len(rest) |-> <<lo>> \o rest[j]]
             \o combinations(lo + 1, n, k)

\* Mutant of get_5_subsets: the index range starts at 1, player 0 is left out.
get_5_subsets_from1(N) == combinations(1, N, TeamSize)

\* get_5_subsets(N): list(combinations(range(N), 5)).  TEAMS_CACHE only saves
\* recomputing the same list, so the list is modelled and the cache is not.
get_5_subsets(N) == combinations(0, N, TeamSize)

\* ------------------------------------------------- DisjointEqualSumFinder
\* sum(scores[i] for i in T)
RECURSIVE SumFrom(_, _, _)
SumFrom(scores, T, j) ==
    IF j > Len(T) THEN 0 ELSE scores[T[j] + 1] + SumFrom(scores, T, j + 1)

TeamSum(scores, T) == SumFrom(scores, T, 1)

\* Mutant of isdisjoint: only the first indices are compared.
isdisjoint_first(T, U) == T[1] # U[1]

\* set(T).isdisjoint(U)
isdisjoint(T, U) == \A a \in 1..Len(T) : \A b \in 1..Len(U) : T[a] # U[b]

\* Mutant of FirstDisjoint: the bucket is scanned from its newest entry.
FirstDisjoint_last(bucket, T) ==
    LET hits == {j \in 1..Len(bucket) : isdisjoint(T, bucket[j])}
    IN  IF hits = {} THEN 0
        ELSE CHOOSE j \in hits : \A h \in hits : j >= h

\* Position of the first entry of bucket that is disjoint from T, 0 if none:
\* the inner "for U in by_sum.get(s, [])" loop, which stops at its first hit.
FirstDisjoint(bucket, T) ==
    LET hits == {j \in 1..Len(bucket) : isdisjoint(T, bucket[j])}
    IN  IF hits = {} THEN 0
        ELSE CHOOSE j \in hits : \A h \in hits : j <= h

\* by_sum.get(s, [])
BucketGet(by_sum, s) == IF s \in DOMAIN by_sum THEN by_sum[s] ELSE <<>>

\* by_sum.setdefault(s, []).append(T)
BucketAppend(by_sum, s, T) ==
    [x \in DOMAIN by_sum \cup {s} |->
        IF x = s THEN Append(BucketGet(by_sum, s), T) ELSE by_sum[x]]

\* Mutant of FindBody: the bucket's first entry is returned without the
\* disjointness test.
FindBody_overlap(scores, T, by_sum) ==
    LET s == TeamSum(scores, T)
    IN  IF BucketGet(by_sum, s) # <<>>
        THEN [ret |-> <<T, BucketGet(by_sum, s)[1]>>, by_sum |-> by_sum]
        ELSE [ret |-> None, by_sum |-> BucketAppend(by_sum, s, T)]

\* One pass of the body of "for T in get_5_subsets(...)" on teams[idx]:
\* ret is the value returned (None while the loop goes on).
FindBody(scores, T, by_sum) ==
    LET s   == TeamSum(scores, T)
        hit == FirstDisjoint(BucketGet(by_sum, s), T)
    IN  IF hit # 0
        THEN [ret |-> <<T, BucketGet(by_sum, s)[hit]>>, by_sum |-> by_sum]
        ELSE [ret |-> None, by_sum |-> BucketAppend(by_sum, s, T)]

\* The loop over teams[lo..hi] in order, leaving at the first return.  The
\* range is split in halves only to keep the evaluation shallow; the passes
\* run in the order lo, lo + 1, ..., hi and each sees the by_sum left by the
\* pass before it.
RECURSIVE FindLoop(_, _, _, _, _)
FindLoop(scores, teams, lo, hi, by_sum) ==
    IF lo > hi THEN [ret |-> None, by_sum |-> by_sum]
    ELSE IF lo = hi THEN FindBody(scores, teams[lo], by_sum)
    ELSE LET mid   == (lo + hi) \div 2
             first == FindLoop(scores, teams, lo, mid, by_sum)
         IN  IF first.ret # None THEN first
             ELSE FindLoop(scores, teams, mid + 1, hi, first.by_sum)

find_equal_pair(scores) ==
    LET teams == get_5_subsets(Len(scores))
    IN  FindLoop(scores, teams, 1, Len(teams), <<>>).ret

\* ------------------------------------------------------- example_checker
\* One pass of the body of "for combo in combinations(...)": out is the pair
\* printed, in the order printed (prev, then combo), None while the loop goes on.
CheckerBody(values, combo, sum_to_combos) ==
    LET s == TeamSum(values, combo)
    IN  IF s \in DOMAIN sum_to_combos
        THEN LET hit == FirstDisjoint(sum_to_combos[s], combo)
             IN  IF hit # 0
                 THEN [out |-> <<sum_to_combos[s][hit], combo>>,
                       sum_to_combos |-> sum_to_combos]
                 ELSE [out |-> None,
                       sum_to_combos |->
                           [sum_to_combos EXCEPT ![s] = Append(@, combo)]]
        ELSE [out |-> None,
              sum_to_combos |->
                  [x \in DOMAIN sum_to_combos \cup {s} |->
                      IF x = s THEN <<combo>> ELSE sum_to_combos[x]]]

\* The loop over combos[lo..hi] in order, leaving at the first hit (split in
\* halves as FindLoop is).
RECURSIVE CheckerLoop(_, _, _, _, _)
CheckerLoop(values, combos, lo, hi, sum_to_combos) ==
    IF lo > hi THEN [out |-> None, sum_to_combos |-> sum_to_combos]
    ELSE IF lo = hi THEN CheckerBody(values, combos[lo], sum_to_combos)
    ELSE LET mid   == (lo + hi) \div 2
             first == CheckerLoop(values, combos, lo, mid, sum_to_combos)
         IN  IF first.out # None THEN first
             ELSE CheckerLoop(values, combos, mid + 1, hi, first.sum_to_combos)

\* main of example_checker after parsing: <<"error">> for fewer than 10 values,
\* otherwise the pair printed, or None for the "No two disjoint" message.
checker_main(values) ==
    IF Len(values) < 2 * TeamSize THEN <<"error">>
    ELSE LET combos == get_5_subsets(Len(values))
         IN  CheckerLoop(values, combos, 1, Len(combos), <<>>).out

\* ------------------------------------------------------------ ModelBuilder
Min(a, b) == IF a <= b THEN a ELSE b
Max(a, b) == IF a >= b THEN a ELSE b

\* The lists the oracle searches: n scores from lo..ValueBound in
\* non-decreasing order adding up to at most budget.  (The order constraint of
\* the base model is stated again in SymmetryBreaking; enumerating ordered
\* lists only keeps the search space small.)
RECURSIVE NonDecreasing(_, _, _)
NonDecreasing(n, lo, budget) ==
    IF n = 0 THEN {<<>>}
    ELSE UNION {{<<v>> \o r : r \in NonDecreasing(n - 1, v, budget - v)} :
                    v \in lo..Min(ValueBound, budget \div n)}

ScoreLists(n) == NonDecreasing(n, 1, MaxTotal)

\* mdl.Add(score[0] == 1) and mdl.Add(score[i] <= score[i + 1]).
SymmetryBreaking(score) ==
    /\ score[1] = 1
    /\ \A i \in 0..(Len(score) - 2) : score[i + 1] <= score[i + 2]

\* Pruning 1: mdl.Add(score[i] != score[i + 9]) for i in range(N - 9).
Pruning1(score) ==
    \A i \in 0..(Len(score) - RunGap - 1) : score[i + 1] # score[i + 1 + RunGap]

\* count_v = sum(eq_bools): how many times v appears.
count_v(score, v) == Cardinality({i \in 1..Len(score) : score[i] = v})

\* pair_v: the one value with pair_v * 2 <= count_v <= pair_v * 2 + 1.
pair_v(score, v) == count_v(score, v) \div 2

RECURSIVE SumPairs(_, _)
SumPairs(score, vs) ==
    IF vs = {} THEN 0
    ELSE LET v == CHOOSE x \in vs : TRUE
         IN  pair_v(score, v) + SumPairs(score, vs \ {v})

\* Mutant of Pruning2: one duplicate pair fewer is admitted.
Pruning2_strict(score) ==
    SumPairs(score, {score[i] : i \in 1..Len(score)}) <= MaxPairs - 1

\* Pruning 2: mdl.Add(sum(pair_vars) <= 4).  A value that does not occur has
\* pair_v = 0, so the sum over 1..100 is the sum over the values that occur.
Pruning2(score) ==
    SumPairs(score, {score[i] : i \in 1..Len(score)}) <= MaxPairs

\* The assignments of the model setup_base_model(N) builds.
setup_base_model(N) ==
    {score \in ScoreLists(N) :
        SymmetryBreaking(score) /\ Pruning1(score) /\ Pruning2(score)}

\* mdl.Add(sum(score[i] for i in T) != sum(score[i] for i in U))
Differs(score, clause) == TeamSum(score, clause[1]) # TeamSum(score, clause[2])

\* Mutant of cegar_model: the blocking constraints are not added.
cegar_model_unblocked(N, clauses) == setup_base_model(N)

\* The model of one CEGAR iteration: the base model and, for every entry of
\* block_clauses, its constraint.
cegar_model(N, clauses) ==
    {score \in setup_base_model(N) :
        \A k \in 1..Len(clauses) : Differs(score, clauses[k])}

\* Mutant of static_clauses: the disjointness test is left out.
static_clauses_all(N) ==
    LET teams == get_5_subsets(N)
    IN  UNION {{<<teams[i], teams[j]>> : j \in (i + 1)..Len(teams)} :
                  i \in 1..Len(teams)}

\* The pairs prove_static constrains: (teams[i], teams[j]) for i < j with
\* set(teams[i]).isdisjoint(teams[j]).
static_clauses(N) ==
    LET teams == get_5_subsets(N)
    IN  UNION {{<<teams[i], teams[j]>> :
                    j \in {k \in (i + 1)..Len(teams) :
                              isdisjoint(teams[i], teams[k])}} :
                  i \in 1..Len(teams)}

\* The model prove_static builds: the base model and every such constraint.
static_model(N) ==
    LET clauses == static_clauses(N)
    IN  {score \in setup_base_model(N) : \A c \in clauses : Differs(score, c)}

\* ------------------------------------------------------------ SolverOracle
\* solver.Solve(mdl), mdl given by its set of assignments: INFEASIBLE only if
\* there is none, OPTIMAL or FEASIBLE only with one of them, UNKNOWN when the
\* search time ran out, MODEL_INVALID as the remaining status of cp_model.
Solve(mdl) ==
    {[status |-> st, sol |-> None] : st \in {"UNKNOWN", "MODEL_INVALID"}}
    \cup (IF mdl = {} THEN {[status |-> "INFEASIBLE", sol |-> None]} ELSE {})
    \cup {[status |-> st, sol |-> a] : st \in {"OPTIMAL", "FEASIBLE"}, a \in mdl}

\* Mutant of Budget: the time left is not clamped at 0.
Budget_unclamped(wallclock_limit, passed) == wallclock_limit - passed

\* max(0.0, wallclock_limit - (perf_counter() - t0))
Budget(wallclock_limit, passed) == Max(0, wallclock_limit - passed)

\* ------------------------------------------------------------------ state
VARIABLES
    start, end, limit, no_cegar,   \* args of equal_teams_solver.main
    N,                             \* the loop variable of main
    pc,                            \* where equal_teams_solver.main is
    block_clauses,                 \* prove_with_cegar's list
    elapsed,                       \* perf_counter() - t0, in ticks
    max_time,                      \* solver.parameters.max_time_in_seconds
    status, sol,                   \* the oracle's last answer
    result,                        \* what the proof attempt returned or raised
    out,                           \* the lines main and the provers printed
    validated,                     \* find_equal_pair, tabulated (see Init)
    values,                        \* example_checker: the parsed values
    fpc,                           \* where the finder run is
    pair,                          \* what find_equal_pair(values) returned
    report                         \* what example_checker.main reported

dvars == <<start, end, limit, no_cegar, N, pc, block_clauses, elapsed,
           max_time, status, sol, result, out, validated>>
fvars == <<values, fpc, pair, report>>
vars  == <<dvars, fvars>>

\* No solver has been given a time limit yet: a value that the time left,
\* limit - elapsed, never takes (the clock stops one tick past the limit).
NoBudget == -2

\* ------------------------------------------------- equal_teams_solver.main
\* The finder run is not part of the sweep.
FinderIdle ==
    /\ values = None
    /\ fpc = "idle"
    /\ pair = None
    /\ report = None

\* find_equal_pair is a pure function of the scores.  Its value on every
\* assignment the solver can return during the sweep is computed once, here,
\* and read by CegarIteration where the code calls find_equal_pair(sol); the
\* table never changes.
Init ==
    /\ validated = [a \in UNION {setup_base_model(n) : n \in MinN..MaxN} |->
                        find_equal_pair(a)]
    /\ start \in MinN..MaxN
    /\ end \in MinN..MaxN
    /\ limit \in 0..MaxLimit
    /\ no_cegar \in BOOLEAN
    /\ N = start
    /\ pc = "for"
    /\ block_clauses = <<>>
    /\ elapsed = 0
    /\ max_time = NoBudget
    /\ status = "NONE"
    /\ sol = None
    /\ result = "NONE"
    /\ out = <<>>
    /\ FinderIdle

\* for N in range(args.start, args.end + 1): print(f"N = {N}") and the call of
\* prove_static or prove_with_cegar up to its first statement.
MainFor ==
    /\ pc = "for"
    /\ IF N > end
       THEN /\ pc' = "exit"
            /\ UNCHANGED <<out, block_clauses, elapsed, max_time, status, sol,
                           result>>
       ELSE /\ out' = Append(out, <<"N =", N>>)
            /\ pc' = IF no_cegar THEN "static" ELSE "cegar"
            /\ block_clauses' = <<>>
            /\ elapsed' = 0
            /\ max_time' = NoBudget
            /\ status' = "NONE"
            /\ sol' = None
            /\ result' = "NONE"
    /\ UNCHANGED <<start, end, limit, no_cegar, N, validated, fvars>>

\* One pass of "while True" of prove_with_cegar: the model is built, the
\* solver is given what is left of the time limit and called, and its status
\* is acted on; validated[a] is find_equal_pair(a).  Up to one tick passes before the time left is computed; the
\* clock is not followed beyond one tick past the limit.
CegarIteration ==
    /\ pc = "cegar"
    /\ LET answers == Solve(cegar_model(N, block_clauses))
       IN  \E a \in {x.sol : x \in answers} :
           LET found == IF a = None THEN None ELSE validated[a]
           IN  \E answer \in {x \in answers : x.sol = a}, tick \in 0..1 :
               /\ elapsed' = Min(elapsed + tick, limit + 1)
               /\ max_time' = Budget(limit, elapsed')
               /\ status' = answer.status
               /\ sol' = answer.sol
               /\ IF answer.status = "INFEASIBLE"
                  THEN /\ out' = Append(out, <<"UNSAT", N>>)
                       /\ result' = "PROVEN"
                       /\ pc' = "after"
                       /\ UNCHANGED block_clauses
                  ELSE IF answer.status \in {"OPTIMAL", "FEASIBLE"}
                  THEN IF found = None
                       THEN /\ out' = Append(out, <<"SAT", N>>)
                            /\ result' = "DISPROVEN"
                            /\ pc' = "after"
                            /\ UNCHANGED block_clauses
                       ELSE /\ block_clauses' = Append(block_clauses, found)
                            /\ UNCHANGED <<out, result, pc>>
                  ELSE /\ result' = "TimeoutError"
                       /\ pc' = "after"
                       /\ UNCHANGED <<out, block_clauses>>
    /\ UNCHANGED <<start, end, limit, no_cegar, N, validated, fvars>>

\* prove_static: one model, one call of the solver with the whole limit.
ProveStatic ==
    /\ pc = "static"
    /\ max_time' = limit
    /\ \E answer \in Solve(static_model(N)) :
           /\ status' = answer.status
           /\ sol' = answer.sol
           /\ IF answer.status = "INFEASIBLE"
              THEN /\ out' = Append(out, <<"UNSAT", N>>)
                   /\ result' = "PROVEN"
              ELSE IF answer.status \in {"OPTIMAL", "FEASIBLE"}
              THEN /\ out' = Append(out, <<"SAT", N>>)
                   /\ result' = "DISPROVEN"
              ELSE /\ result' = "TimeoutError"
                   /\ UNCHANGED out
    /\ pc' = "after"
    /\ UNCHANGED <<start, end, limit, no_cegar, N, block_clauses, elapsed,
                   validated, fvars>>

\* Mutant of MainAfter: the sweep goes on after a TimeoutError.
MainAfter_noBreak ==
    /\ pc = "after"
    /\ IF result = "TimeoutError"
       THEN /\ out' = Append(out, <<">>", N>>)
            /\ N' = N + 1
            /\ pc' = "for"
       ELSE IF result = "PROVEN"
       THEN /\ pc' = "exit"
            /\ UNCHANGED <<N, out>>
       ELSE /\ N' = N + 1
            /\ pc' = "for"
            /\ UNCHANGED out
    /\ UNCHANGED <<start, end, limit, no_cegar, block_clauses, elapsed,
                   max_time, status, sol, result, validated, fvars>>

\* Back in main: "if done: break", "except TimeoutError: print; break", or
\* the next N.
MainAfter ==
    /\ pc = "after"
    /\ IF result = "TimeoutError"
       THEN /\ out' = Append(out, <<">>", N>>)
            /\ pc' = "exit"
            /\ UNCHANGED N
       ELSE IF result = "PROVEN"
       THEN /\ pc' = "exit"
            /\ UNCHANGED <<N, out>>
       ELSE /\ N' = N + 1
            /\ pc' = "for"
            /\ UNCHANGED out
    /\ UNCHANGED <<start, end, limit, no_cegar, block_clauses, elapsed,
                   max_time, status, sol, result, validated, fvars>>

Next == MainFor \/ CegarIteration \/ ProveStatic \/ MainAfter

Spec == Init /\ [][Next]_vars

\* ------------------------------------------- the finder on its own inputs
\* s rotated left by r places.
Rotate(s, r) == [i \in 1..Len(s) |-> s[((i - 1 + r) % Len(s)) + 1]]

Reverse(s) == [i \in 1..Len(s) |-> s[Len(s) + 1 - i]]

\* The lists handed to the finder and to the checker: the small score lists
\* of MinN to MaxLen values, sorted, rotated, or in descending order.
FinderInputs ==
    LET sorted == UNION {ScoreLists(n) : n \in MinN..MaxLen}
    IN  {Rotate(s, r) : s \in sorted, r \in 0..MaxShift}
        \cup {Reverse(s) : s \in sorted}

\* The sweep is not part of the finder run.
SweepIdle ==
    /\ start = MinN /\ end = MinN /\ limit = 0 /\ no_cegar = FALSE
    /\ N = MinN /\ pc = "idle" /\ block_clauses = <<>> /\ elapsed = 0
    /\ max_time = NoBudget /\ status = "NONE" /\ sol = None
    /\ result = "NONE" /\ out = <<>> /\ validated = <<>>

FinderInit ==
    /\ values \in FinderInputs
    /\ fpc = "start"
    /\ pair = None
    /\ report = None
    /\ SweepIdle

\* pair = find_equal_pair(values)
RunFinder ==
    /\ fpc = "start"
    /\ pair' = find_equal_pair(values)
    /\ fpc' = "found"
    /\ UNCHANGED <<values, report, dvars>>

\* example_checker.main on the same values.
RunChecker ==
    /\ fpc = "found"
    /\ report' = checker_main(values)
    /\ fpc' = "done"
    /\ UNCHANGED <<values, pair, dvars>>

FinderNext == RunFinder \/ RunChecker

FinderSpec == FinderInit /\ [][FinderNext]_vars

\* -------------------------------------------------- cross-validation run
\* The program run on one N with --no-cegar and then again without it, the
\* second run printing below the first.
CrossInit ==
    /\ validated = [a \in UNION {setup_base_model(n) : n \in MinN..MaxN} |->
                        find_equal_pair(a)]
    /\ start \in MinN..MaxN
    /\ end = start
    /\ limit \in 0..MaxLimit
    /\ no_cegar = TRUE
    /\ N = start
    /\ pc = "for"
    /\ block_clauses = <<>>
    /\ elapsed = 0
    /\ max_time = NoBudget
    /\ status = "NONE"
    /\ sol = None
    /\ result = "NONE"
    /\ out = <<>>
    /\ FinderIdle

Rerun ==
    /\ pc = "after"
    /\ no_cegar
    /\ no_cegar' = FALSE
    /\ pc' = "for"
    /\ UNCHANGED <<start, end, limit, N, block_clauses, elapsed, max_time,
                   status, sol, result, out, validated, fvars>>

CrossNext == MainFor \/ ProveStatic \/ CegarIteration \/ Rerun

CrossSpec == CrossInit /\ [][CrossNext]_vars

\* ---------------------------------------------------------------- claims
\* The indices of a team, as a set.
Indices(T) == {T[k] : k \in 1..Len(T)}

RECURSIVE SetSum(_, _)
SetSum(v, S) ==
    IF S = {} THEN 0
    ELSE LET i == CHOOSE x \in S : TRUE
         IN  v[i + 1] + SetSum(v, S \ {i})

\* p is a pair of teams of v: five distinct indices each, no index shared,
\* equal sums.
ValidPair(v, p) ==
    /\ Len(p) = 2
    /\ \A k \in 1..2 :
           /\ Len(p[k]) = TeamSize
           /\ Cardinality(Indices(p[k])) = TeamSize
           /\ Indices(p[k]) \subseteq 0..(Len(v) - 1)
    /\ Indices(p[1]) \cap Indices(p[2]) = {}
    /\ SetSum(v, Indices(p[1])) = SetSum(v, Indices(p[2]))

AllEqual(v) == \A i \in 1..Len(v) : v[i] = v[1]

\* C1: whatever pair find_equal_pair returns, and whatever pair the scan of
\* example_checker.main reports, consists of two sets of exactly 5 distinct
\* indices of the values that share no index and have equal sums; ten equal
\* values yield such a pair.
C1_PairIsValid ==
    /\ (fpc \in {"found", "done"} /\ pair # None) => ValidPair(values, pair)
    /\ (fpc = "done" /\ Len(report) = 2) => ValidPair(values, report)
    /\ (fpc \in {"found", "done"} /\ Len(values) = 2 * TeamSize
            /\ AllEqual(values)) => pair # None

C1_Witness ==
    /\ fpc = "done"
    /\ Len(values) = 2 * TeamSize
    /\ AllEqual(values)
    /\ Len(pair) = 2
    /\ Len(report) = 2

\* Brute force: some two disjoint 5-element index sets of v have equal sums.
FiveSets(S) == {X \in SUBSET S : Cardinality(X) = TeamSize}

ExistsEqualPair(v) ==
    LET all == 0..(Len(v) - 1)
    IN  \E X \in FiveSets(all) :
            \E Y \in FiveSets(all \ X) : SetSum(v, X) = SetSum(v, Y)

\* C2: find_equal_pair returns None only if no two disjoint 5-element index
\* sets have equal sums (brute force over all pairs); whenever such a pair
\* exists it returns a pair.
C2_NoneMeansNoPair ==
    (fpc = "found") => (pair = None <=> ~ExistsEqualPair(values))

C2_Witness ==
    /\ fpc = "found"
    /\ pair = None
    /\ Len(values) > 2 * TeamSize

\* The first pair met in scan order: the earliest team (position j of the
\* enumeration) that has a disjoint team of equal sum before it, and the
\* earliest such team (position i) before it.
Partners(teams, sums, j) ==
    {i \in 1..(j - 1) :
        /\ sums[i] = sums[j]
        /\ Indices(teams[i]) \cap Indices(teams[j]) = {}}

Least(S) == CHOOSE x \in S : \A y \in S : x <= y

FirstMet(v) ==
    LET teams == get_5_subsets(Len(v))
        sums  == <<>> \o [j \in 1..Len(teams) |-> SetSum(v, Indices(teams[j]))]
        later == {j \in 1..Len(teams) : Partners(teams, sums, j) # {}}
    IN  IF later = {} THEN None
        ELSE <<Least(Partners(teams, sums, Least(later))), Least(later)>>

\* (U, T): the team seen first, then the team it was found from.
EarlierFirst(v) ==
    LET m == FirstMet(v)
    IN  IF m = None THEN None
        ELSE <<get_5_subsets(Len(v))[m[1]], get_5_subsets(Len(v))[m[2]]>>

\* (T, U): the team being scanned, then the team found in its bucket.
LaterFirst(v) ==
    LET m == FirstMet(v)
    IN  IF m = None THEN None
        ELSE <<get_5_subsets(Len(v))[m[2]], get_5_subsets(Len(v))[m[1]]>>

\* C10, as claimed: find_equal_pair returns the first pair met in scan order
\* as (U, T), the team seen before the other first.
C10_EarlierFirst ==
    (fpc = "found") => pair = EarlierFirst(values)

\* C10, amended: find_equal_pair returns the first pair met in scan order as
\* (T, U): T, the earliest team with a disjoint team of equal sum before it,
\* comes first and U, the earliest-inserted such team, second.  The scan of
\* example_checker.main reports the same two teams as (U, T).
C10_LaterFirst ==
    /\ (fpc = "found") => pair = LaterFirst(values)
    /\ (fpc = "done" /\ Len(values) >= 2 * TeamSize) =>
           /\ report = (IF pair = None THEN None ELSE <<pair[2], pair[1]>>)

C10_Witness ==
    /\ fpc = "done"
    /\ Len(pair) = 2
    /\ Len(values) > 2 * TeamSize
    /\ report = <<pair[2], pair[1]>>

\* C9: a non-decreasing list of scores in 1..100 that pruning 1 rejects (some
\* score[i] = score[i + 9]) or pruning 2 rejects (more than 4 duplicate pairs
\* in total) has two disjoint teams of equal sum: find_equal_pair returns a
\* pair for it.
C9_PruningIsSound ==
    (/\ fpc = "found"
     /\ \A i \in 1..(Len(values) - 1) : values[i] <= values[i + 1]
     /\ \A i \in 1..Len(values) : values[i] \in 1..ValueBound
     /\ ~(Pruning1(values) /\ Pruning2(values)))
    => pair # None

C9_Witness ==
    /\ fpc = "found"
    /\ \A i \in 1..(Len(values) - 1) : values[i] <= values[i + 1]
    /\ Pruning1(values)
    /\ ~Pruning2(values)
    /\ Len(pair) = 2

\* Two blocking constraints on the same two teams, in either order.
SamePair(c, d) == {c[1], c[2]} = {d[1], d[2]}

NoRepeat(clauses) ==
    \A i, j \in 1..Len(clauses) : i < j => ~SamePair(clauses[i], clauses[j])

IsPrefix(a, b) ==
    /\ Len(a) <= Len(b)
    /\ \A i \in 1..Len(a) : a[i] = b[i]

\* C3: within one proof attempt of prove_with_cegar the list of blocking
\* constraints never shrinks and loses no entry (the list before an iteration
\* is a prefix of the list after it), and no pair of teams is in it twice, in
\* either order.
C3_Monotone ==
    [][pc = "cegar" =>
          /\ IsPrefix(block_clauses, block_clauses')
          /\ NoRepeat(block_clauses')]_vars

C3_Witness ==
    /\ pc = "cegar"
    /\ Len(block_clauses) >= 2

\* An iteration of prove_with_cegar has computed the time left.
IterationRun == ~no_cegar /\ max_time # NoBudget

\* The solver has been called.
OracleInvoked == status # "NONE"

\* C4, as claimed: when the time left is <= 0 before the solver would be
\* called, the attempt ends with TIMEOUT and the solver is not called.
C4_FailFast ==
    (IterationRun /\ limit - elapsed <= 0) =>
        (result = "TimeoutError" /\ ~OracleInvoked)

\* C4, amended: the solver is called in every iteration, with the time left
\* clamped at 0: when the time left is <= 0 it is called with a limit of
\* exactly 0, never a negative one, and the attempt ends with TIMEOUT in that
\* iteration exactly when the solver returns a status other than INFEASIBLE,
\* OPTIMAL and FEASIBLE.
C4_ClampedBudget ==
    IterationRun =>
        /\ OracleInvoked
        /\ max_time >= 0
        /\ (limit - elapsed <= 0) => max_time = 0
        /\ (limit - elapsed > 0) => max_time = limit - elapsed
        /\ (result = "TimeoutError") <=>
               (status \notin {"INFEASIBLE", "OPTIMAL", "FEASIBLE"})

C4_Witness ==
    /\ IterationRun
    /\ limit - elapsed < 0
    /\ max_time = 0
    /\ status \in {"OPTIMAL", "FEASIBLE"}
    /\ result = "DISPROVEN"

\* The verdict lines printed so far, in order.
Verdicts == SelectSeq(out, LAMBDA line : line[1] \in {"UNSAT", "SAT"})

\* C5: for the same N, with a solver that is sound and complete and did not
\* run out of time, prove_static and prove_with_cegar return the same result:
\* the verdict printed by the run with --no-cegar and the verdict printed by
\* the run without it are the same.
C5_SameVerdict ==
    Len(Verdicts) = 2 => Verdicts[1] = Verdicts[2]

C5_Witness ==
    /\ Len(Verdicts) = 2
    /\ Len(block_clauses) >= 1
    /\ Verdicts[2][1] = "SAT"

\* n over k.
RECURSIVE Binomial(_, _)
Binomial(n, k) ==
    IF k = 0 THEN 1
    ELSE IF n < k THEN 0
    ELSE (Binomial(n - 1, k - 1) * n) \div k

\* The number of unordered pairs of disjoint 5-subsets of range(n).
DisjointPairCount(n) ==
    (Binomial(n, TeamSize) * Binomial(n - TeamSize, TeamSize)) \div 2

\* C6: in an attempt of prove_with_cegar the number of refinement iterations
\* made (each appends one blocking constraint) never exceeds the number of
\* unordered pairs of disjoint 5-subsets of range(N), so a solver that does
\* not run out of time is asked at most that many times before the attempt
\* ends PROVEN or DISPROVEN.
C6_BoundedRefinement ==
    Len(block_clauses) <= DisjointPairCount(N)

C6_Witness ==
    /\ pc = "after"
    /\ result \in {"PROVEN", "DISPROVEN"}
    /\ Len(block_clauses) >= 2

\* The lines "N = ..." printed so far, in order: one per proof attempt.
Attempts == SelectSeq(out, LAMBDA line : line[1] = "N =")

\* C7: the sweep tries N = start, start + 1, ... in this order up to end, one
\* attempt each; nothing is tried after a PROVEN result or after a TIMEOUT
\* (their lines are the last ones printed), and the sweep ends after a
\* DISPROVEN result only at N = end.
C7_AscendingSweep ==
    /\ \A k \in 1..Len(Attempts) :
           Attempts[k][2] = start + k - 1 /\ Attempts[k][2] <= end
    /\ \A k \in 1..Len(out) :
           out[k][1] \in {"UNSAT", ">>"} => k = Len(out)
    /\ \A k \in 1..Len(out) :
           out[k][1] \in {"UNSAT", "SAT", ">>"} =>
               (k > 1 /\ out[k - 1] = <<"N =", out[k][2]>>)
    /\ (pc = "exit" /\ out # <<>>) =>
           \/ out[Len(out)][1] \in {"UNSAT", ">>"}
           \/ out[Len(out)] = <<"SAT", end>>
    /\ (pc = "exit" /\ out = <<>>) => start > end

C7_Witness ==
    /\ pc = "exit"
    /\ Len(Attempts) >= 3
    /\ out[Len(out)][1] = "UNSAT"
    /\ out[2][1] = "SAT"

\* C8: a status of the solver other than INFEASIBLE, OPTIMAL, FEASIBLE and
\* UNKNOWN (time limit) is treated as a fault of its own: the attempt does
\* not end PROVEN, DISPROVEN or TIMEOUT.
C8_OtherStatusIsFault ==
    (pc \in {"after", "exit"} /\ status = "MODEL_INVALID") =>
        result \notin {"PROVEN", "DISPROVEN", "TimeoutError"}

====
